---------------------------- MODULE Spec2Model ----------------------------
(***************************************************************************)
(* A model of twitter-text-python (src/ttp/ttp.py, src/ttp/py3_regex.py):  *)
(* the five compiled patterns, the four substitution callbacks of Parser,  *)
(* Parser.parse in Text and HTML mode, escape and Parser._shorten_url.     *)
(*                                                                         *)
(* A text is a sequence of characters; a character is a one-character      *)
(* string, or the name of its code point for the four non-ASCII characters *)
(* the model uses ("U+FF20" fullwidth at-sign, "U+FF03" fullwidth number   *)
(* sign, "U+00A0" no-break space, "U+00E9" e with acute).  Offsets are     *)
(* Python's: 0-based, a span (s, e) covers the characters s .. e-1.        *)
(***************************************************************************)
EXTENDS Integers, Sequences, FiniteSets

(***************************************************************************)
(* Characters and the character classes of py3_regex.py                    *)
(***************************************************************************)
LowerSeq ==
    <<"a", "b", "c", "d", "e", "f", "g", "h", "i", "j", "k", "l", "m",
      "n", "o", "p", "q", "r", "s", "t", "u", "v", "w", "x", "y", "z">>

UpperSeq ==
    <<"A", "B", "C", "D", "E", "F", "G", "H", "I", "J", "K", "L", "M",
      "N", "O", "P", "Q", "R", "S", "T", "U", "V", "W", "X", "Y", "Z">>

Lower == {LowerSeq[i] : i \in 1..Len(LowerSeq)}

Upper == {UpperSeq[i] : i \in 1..Len(UpperSeq)}

Letter == Lower \cup Upper

Digit == {"0", "1", "2", "3", "4", "5", "6", "7", "8", "9"}

Punct ==
    {" ", "@", "#", "/", "-", "_", ".", ":", "\"", "'", "!", "=", "&", ";",
     "<", ">", "?", "%", ",", ")"}

NonAscii == {"U+FF20", "U+FF03", "U+00A0", "U+00E9"}

\* Every character a text or the generated markup can hold.
Chars == Letter \cup Digit \cup Punct \cup NonAscii

\* AT_SIGNS = [@\uff20]
AT_SIGNS == {"@", "U+FF20"}

\* the sigils of HASHTAG_EXP: (#|\uff03)
HASH_SIGNS == {"#", "U+FF03"}

\* [a-z0-9_] under re.IGNORECASE
UserChars == Letter \cup Digit \cup {"_"}

\* UTF_CHARS = a-z0-9_\u00c0-\u00d6\u00d8-\u00f6\u00f8-\u00ff under re.IGNORECASE
UTF_CHARS == UserChars \cup {"U+00E9"}

\* SPACES = [\u0020\u00A0\u1680\u180E\u2002-\u202F\u205F\u2060\u3000]
SPACES == {" ", "U+00A0"}

\* \s of a str pattern: Unicode whitespace
WhiteSpace == {" ", "U+00A0"}

\* \w of a str pattern: Unicode alphanumerics and the underscore
WordChars == Letter \cup Digit \cup {"_", "U+00E9"}

\* [a-z0-9\x80-\xFF-] under re.IGNORECASE
SlugChars == Letter \cup Digit \cup {"-", "U+00A0", "U+00E9"}

\* LIST_PRE_CHARS: [^a-z0-9_]
ListPreChars == Chars \ UserChars

\* the leading context of HASHTAG_EXP: [^0-9A-Z&/]
HashPreChars == Chars \ (Letter \cup Digit \cup {"&", "/"})

\* [0-9A-Z_] and [A-Z_] of HASHTAG_EXP
TagHeadChars == Letter \cup Digit \cup {"_"}

TagAlphaChars == Letter \cup {"_"}

\* PRE_CHARS = (?:[^/"':!=]|^|\:)
UrlPreChars == Chars \ {"/", "\"", "'", ":", "!", "="}

\* DOMAIN_CHARS: ([\.-]|[^\s_\!\.\/])
DomainChars == {".", "-"} \cup (Chars \ (WhiteSpace \cup {"_", "!", ".", "/"}))

\* the class of PATH_CHARS, its optional [\.,] prefix, and PATH_ENDING_CHARS
PathClass ==
    UTF_CHARS \cup {"!", "'", ")", ";", ":", "=", "/", "%", "#", "-", "_", ",", "@"}

PathPrefix == {".", ","}

PATH_ENDING_CHARS == UTF_CHARS \cup {")", "=", "#", "/"}

\* QUERY_CHARS and QUERY_ENDING_CHARS
QUERY_CHARS ==
    Letter \cup Digit \cup
    {"!", "'", ")", ";", ":", "&", "=", "/", "%", "#", "-", "_", ".", ","}

QUERY_ENDING_CHARS == Letter \cup Digit \cup {"_", "&", "=", "#"}

\* {1,20} of LIST_END_CHARS and REPLY_REGEX
MaxUserLen == 20

\* {0,79} of LIST_END_CHARS
MaxSlugTail == 79

\* [a-z]{2,} of DOMAIN_CHARS
MinTldLen == 2

(***************************************************************************)
(* Python str and match-object primitives                                  *)
(***************************************************************************)
\* the result of str.find / str.rfind when nothing is found, and the
\* offsets of a group that took no part in a match
NotFound == -1

NoGroup == <<NotFound, NotFound>>

NoMatch == [start |-> NotFound]

Min(a, b) == IF a < b THEN a ELSE b

Max(a, b) == IF a < b THEN b ELSE a

\* t[i] for a 0-based offset, "" outside the text
At(t, i) == IF i >= 0 /\ i < Len(t) THEN t[i + 1] ELSE ""

\* t[a:b] with Python's treatment of negative and overlong offsets
PySlice(t, a, b) ==
    LET n  == Len(t)
        a1 == IF a < 0 THEN Max(n + a, 0) ELSE Min(a, n)
        b1 == IF b < 0 THEN Max(n + b, 0) ELSE Min(b, n)
    IN  IF a1 < b1 THEN SubSeq(t, a1 + 1, b1) ELSE <<>>

\* t[a:]
PyFrom(t, a) == PySlice(t, a, Len(t))

\* str.lower on the characters of the model
LowerChar(c) ==
    IF c \in Upper
      THEN LowerSeq[CHOOSE i \in 1..Len(UpperSeq) : UpperSeq[i] = c]
      ELSE c

PyLower(t) == [i \in 1..Len(t) |-> LowerChar(t[i])]

\* whether the text holds w at offset i
StartsAt(t, i, w) ==
    /\ i >= 0
    /\ i + Len(w) <= Len(t)
    /\ \A k \in 1..Len(w) : t[i + k] = w[k]

\* str.find(w) and str.rfind(w)
PyFind(t, w) ==
    LET hits == {i \in 0..Len(t) : StartsAt(t, i, w)}
    IN  IF hits = {} THEN NotFound
        ELSE CHOOSE i \in hits : \A j \in hits : i <= j

PyRFind(t, w) ==
    LET hits == {i \in 0..Len(t) : StartsAt(t, i, w)}
    IN  IF hits = {} THEN NotFound
        ELSE CHOOSE i \in hits : \A j \in hits : i >= j

\* the offset where the run of characters of S that starts at i ends
RECURSIVE RunEnd(_, _, _)
RunEnd(t, i, S) ==
    IF i < Len(t) /\ t[i + 1] \in S THEN RunEnd(t, i + 1, S) ELSE i

RECURSIVE Concat(_)
Concat(ss) == IF ss = <<>> THEN <<>> ELSE Head(ss) \o Concat(Tail(ss))

(***************************************************************************)
(* The compiled patterns of py3_regex.py.  XMatchAt(t, i) is the match of  *)
(* pattern X that starts at offset i of t, as the backtracking matcher of  *)
(* re finds it (alternatives left to right, repetitions greedy), or        *)
(* NoMatch; a group is the pair of its offsets, NoGroup when it took no    *)
(* part.                                                                   *)
(***************************************************************************)
MaxOf(S) == CHOOSE i \in S : \A j \in S : i >= j

\* \b: a \w on exactly one side of offset i
WordBoundary(t, i) == (At(t, i - 1) \in WordChars) # (At(t, i) \in WordChars)

\* LIST_END_CHARS = ([a-z0-9_]{1,20})(/[a-z][a-z0-9\x80-\xFF-]{0,79})?
ListEndAt(t, i) ==
    LET ue      == Min(RunEnd(t, i, UserChars), i + MaxUserLen)
        hasSlug == At(t, ue) = "/" /\ At(t, ue + 1) \in Letter
        se      == Min(RunEnd(t, ue + 2, SlugChars), ue + 2 + MaxSlugTail)
    IN  IF ue = i THEN NoMatch
        ELSE [start |-> i,
              end   |-> IF hasSlug THEN se ELSE ue,
              user  |-> <<i, ue>>,
              slug  |-> IF hasSlug THEN <<ue, se>> ELSE NoGroup]

\* USERNAME_REGEX = \B[@\uff20] LIST_END_CHARS: group 1 the name, group 2 the
\* list suffix
UsernameMatchAt(t, i) ==
    IF At(t, i) \in AT_SIGNS /\ ~WordBoundary(t, i)
      THEN LET e == ListEndAt(t, i + 1)
           IN  IF e.start = NotFound THEN NoMatch
               ELSE [start |-> i, end |-> e.end, g1 |-> e.user, g2 |-> e.slug]
      ELSE NoMatch

\* ([@\uff20]+) LIST_END_CHARS after a leading context that ends at offset s
ListRestAt(t, i, s) ==
    LET ae == RunEnd(t, s, AT_SIGNS)
        e  == IF ae > s THEN ListEndAt(t, ae) ELSE NoMatch
    IN  IF e.start = NotFound THEN NoMatch
        ELSE [start |-> i, end |-> e.end, g1 |-> <<i, s>>, g2 |-> <<s, ae>>,
              g3 |-> e.user, g4 |-> e.slug]

\* LIST_REGEX = ([^a-z0-9_]|^)([@\uff20]+) LIST_END_CHARS
ListMatchAt(t, i) ==
    LET alt1 == IF At(t, i) \in ListPreChars
                  THEN ListRestAt(t, i, i + 1) ELSE NoMatch
        alt2 == IF i = 0 THEN ListRestAt(t, i, i) ELSE NoMatch
    IN  IF alt1.start # NotFound THEN alt1 ELSE alt2

\* ([0-9A-Z_]*[A-Z_]+[UTF_CHARS]*) at offset j: the offset where it ends
TagBodyEnd(t, j) ==
    LET r1     == RunEnd(t, j, TagHeadChars)
        alphas == {k \in j..(r1 - 1) : At(t, k) \in TagAlphaChars}
    IN  IF alphas = {} THEN NotFound
        ELSE RunEnd(t, RunEnd(t, MaxOf(alphas), TagAlphaChars), UTF_CHARS)

\* (#|\uff03)(...) after a leading context i .. k-1
TagRestAt(t, i, k) ==
    LET e == IF At(t, k) \in HASH_SIGNS THEN TagBodyEnd(t, k + 1) ELSE NotFound
    IN  IF e = NotFound THEN NoMatch
        ELSE [start |-> i, end |-> e, g1 |-> <<i, k>>, g2 |-> <<k, k + 1>>,
              g3 |-> <<k + 1, e>>]

\* HASHTAG_REGEX = (^|[^0-9A-Z&/]+)(#|\uff03)([0-9A-Z_]*[A-Z_]+[UTF_CHARS]*)
HashtagMatchAt(t, i) ==
    LET alt1 == IF i = 0 THEN TagRestAt(t, i, i) ELSE NoMatch
        re   == RunEnd(t, i, HashPreChars)
        ks   == {k \in (i + 1)..re : TagRestAt(t, i, k).start # NotFound}
    IN  IF alt1.start # NotFound THEN alt1
        ELSE IF ks = {} THEN NoMatch
        ELSE TagRestAt(t, i, MaxOf(ks))

\* REPLY_REGEX with {1,} for {1,20}: a name of any length
ReplyMatchUncapped(t) ==
    LET s  == RunEnd(t, 0, SPACES)
        ue == RunEnd(t, s + 1, UserChars)
    IN  IF At(t, s) \in AT_SIGNS /\ ue > s + 1
          THEN [start |-> 0, end |-> Len(t), g1 |-> <<s + 1, ue>>]
          ELSE NoMatch

\* REPLY_REGEX = ^(?:SPACES)*[@\uff20]([a-z0-9_]{1,20}).*  (re.match: at 0)
ReplyMatch(t) ==
    LET s  == RunEnd(t, 0, SPACES)
        ue == Min(RunEnd(t, s + 1, UserChars), s + 1 + MaxUserLen)
    IN  IF At(t, s) \in AT_SIGNS /\ ue > s + 1
          THEN [start |-> 0, end |-> Len(t), g1 |-> <<s + 1, ue>>]
          ELSE NoMatch

\* (https?://|www\.) at offset s: the offset where it ends
SchemeEnd(t, s) ==
    LET low == PyLower(PySlice(t, s, s + 8))
    IN  IF StartsAt(low, 0, <<"h", "t", "t", "p", "s", ":", "/", "/">>) THEN s + 8
        ELSE IF StartsAt(low, 0, <<"h", "t", "t", "p", ":", "/", "/">>) THEN s + 7
        ELSE IF StartsAt(low, 0, <<"w", "w", "w", ".">>) THEN s + 4
        ELSE NotFound

\* DOMAIN_CHARS = ([\.-]|[^\s_\!\.\/])+\.[a-z]{2,}(?::[0-9]+)? at offset d: the
\* greedy + gives way back to the last dot that two letters follow
DomainEnd(t, d) ==
    LET re   == RunEnd(t, d, DomainChars)
        dots == {k \in (d + 1)..(re - 1) :
                    /\ At(t, k) = "."
                    /\ RunEnd(t, k + 1, Letter) >= k + 1 + MinTldLen}
        te   == RunEnd(t, MaxOf(dots) + 1, Letter)
        pe   == RunEnd(t, te + 1, Digit)
    IN  IF dots = {} THEN NotFound
        ELSE IF At(t, te) = ":" /\ pe > te + 1 THEN pe
        ELSE te

\* PATH_CHARS*PATH_ENDING_CHARS at offset p: the offset where it ends
RECURSIVE PathBodyEnd(_, _)
PathBodyEnd(t, p) ==
    LET withPrefix == IF At(t, p) \in PathPrefix /\ At(t, p + 1) \in PathClass
                        THEN PathBodyEnd(t, p + 2) ELSE NotFound
        plain      == IF At(t, p) \in PathClass
                        THEN PathBodyEnd(t, p + 1) ELSE NotFound
    IN  IF withPrefix # NotFound THEN withPrefix
        ELSE IF plain # NotFound THEN plain
        ELSE IF At(t, p) \in PATH_ENDING_CHARS THEN p + 1
        ELSE NotFound

\* (\/(PATH_CHARS*PATH_ENDING_CHARS)?)? at offset q
PathEnd(t, q) ==
    IF At(t, q) # "/" THEN q
    ELSE IF PathBodyEnd(t, q + 1) = NotFound THEN q + 1
    ELSE PathBodyEnd(t, q + 1)

\* (\?QUERY_CHARS*QUERY_ENDING_CHARS)? at offset q
QueryEnd(t, q) ==
    LET re   == RunEnd(t, q + 1, QUERY_CHARS)
        ends == {k \in (q + 1)..(re - 1) : At(t, k) \in QUERY_ENDING_CHARS}
    IN  IF At(t, q) # "?" \/ ends = {} THEN q ELSE MaxOf(ends) + 1

\* ((https?://|www\.)(DOMAIN)(PATH)?(QUERY)?) at offset s, after a leading
\* context that starts at i; group 5 is the domain with its port
UrlRestAt(t, i, s) ==
    LET d  == SchemeEnd(t, s)
        de == IF d = NotFound THEN NotFound ELSE DomainEnd(t, d)
    IN  IF de = NotFound THEN NoMatch
        ELSE [start |-> i, end |-> QueryEnd(t, PathEnd(t, de)),
              g2 |-> <<i, s>>, g4 |-> <<s, d>>, g5 |-> <<d, de>>]

\* URL_REGEX = ((PRE_CHARS)((https?://|www\.)(DOMAIN)(PATH)?(QUERY)?))
UrlMatchAt(t, i) ==
    LET alt1 == IF At(t, i) \in UrlPreChars
                  THEN UrlRestAt(t, i, i + 1) ELSE NoMatch
        alt2 == IF i = 0 THEN UrlRestAt(t, i, i) ELSE NoMatch
        alt3 == IF At(t, i) = ":" THEN UrlRestAt(t, i, i + 1) ELSE NoMatch
    IN  IF alt1.start # NotFound THEN alt1
        ELSE IF alt2.start # NotFound THEN alt2
        ELSE alt3

\* the text of a group of a match
Group(t, g) == PySlice(t, g[1], g[2])

(***************************************************************************)
(* The string literals of ttp.py, as character sequences                   *)
(***************************************************************************)
L_xcom == <<"x", ".", "c", "o", "m">>

L_xorg == <<"x", ".", "o", "r", "g">>

L_zcom == <<"z", ".", "c", "o", "m">>

L_qnet == <<"q", ".", "n", "e", "t">>

L_qcom == <<"q", ".", "c", "o", "m">>

L_inet == <<"i", ".", "n", "e", "t">>

L_com == <<".", "c", "o", "m">>

L_org == <<".", "o", "r", "g">>

L_net == <<".", "n", "e", "t">>

L_amp == <<"&", "a", "m", "p", ";">>

L_quot == <<"&", "q", "u", "o", "t", ";">>

L_apos == <<"&", "a", "p", "o", "s", ";">>

L_gt == <<"&", "g", "t", ";">>

L_lt == <<"&", "l", "t", ";">>

L_a_href == <<"<", "a", " ", "h", "r", "e", "f", "=", "\"">>

L_close_attr == <<"\"", ">">>

L_end_a == <<"<", "/", "a", ">">>

L_dots == <<".", ".", ".">>

L_twitter == <<"h", "t", "t", "p", "s", ":", "/", "/", "t", "w", "i", "t", "t", "e", "r", ".", "c", "o", "m", "/">>

L_search == <<"h", "t", "t", "p", "s", ":", "/", "/", "t", "w", "i", "t", "t", "e", "r", ".", "c", "o", "m", "/", "s", "e", "a", "r", "c", "h", "?", "q", "=">>

L_https == <<"h", "t", "t", "p", "s", ":", "/", "/">>

L_http == <<"h", "t", "t", "p">>

L_www == <<"w", "w", "w">>

(***************************************************************************)
(* escape, the formatters and Parser._shorten_url                          *)
(***************************************************************************)
\* Python's None, as a value no text equals
None == <<"None">>

\* IANA_ONE_LETTER_DOMAINS
IANA_ONE_LETTER_DOMAINS ==
    {L_xcom, L_xorg, L_zcom, L_qnet, L_qcom, L_inet}

OneLetterTlds == {L_com, L_org, L_net}

\* len(domain) == 5
OneLetterDomainLen == 5

\* domain[-4:]
TldSliceStart == -4

EscapeChar(c) ==
    CASE c = "&"  -> L_amp
      [] c = "\"" -> L_quot
      [] c = "'"  -> L_apos
      [] c = ">"  -> L_gt
      [] c = "<"  -> L_lt
      [] OTHER    -> <<c>>

\* escape(text)
escape(text) == Concat([i \in 1..Len(text) |-> EscapeChar(text[i])])

\* urllib.parse.quote of one character: letters, digits and _.-~/ are kept,
\* every other character becomes the %XX of its UTF-8 bytes
QuoteChar(c) ==
    CASE c \in Letter \cup Digit \cup {"_", ".", "-", "/"} -> <<c>>
      [] c = " "  -> <<"%", "2", "0">>
      [] c = "!"  -> <<"%", "2", "1">>
      [] c = "\"" -> <<"%", "2", "2">>
      [] c = "#"  -> <<"%", "2", "3">>
      [] c = "%"  -> <<"%", "2", "5">>
      [] c = "&"  -> <<"%", "2", "6">>
      [] c = "'"  -> <<"%", "2", "7">>
      [] c = ")"  -> <<"%", "2", "9">>
      [] c = ","  -> <<"%", "2", "C">>
      [] c = ":"  -> <<"%", "3", "A">>
      [] c = ";"  -> <<"%", "3", "B">>
      [] c = "<"  -> <<"%", "3", "C">>
      [] c = "="  -> <<"%", "3", "D">>
      [] c = ">"  -> <<"%", "3", "E">>
      [] c = "?"  -> <<"%", "3", "F">>
      [] c = "@"  -> <<"%", "4", "0">>
      [] c = "U+00A0" -> <<"%", "C", "2", "%", "A", "0">>
      [] c = "U+00E9" -> <<"%", "C", "3", "%", "A", "9">>
      [] c = "U+FF03" -> <<"%", "E", "F", "%", "B", "C", "%", "8", "3">>
      [] c = "U+FF20" -> <<"%", "E", "F", "%", "B", "C", "%", "A", "0">>

quote(text) == Concat([i \in 1..Len(text) |-> QuoteChar(text[i])])

\* Parser.format_tag
format_tag(tag, text) ==
    L_a_href \o L_search \o quote(<<"#">> \o text) \o L_close_attr
        \o <<tag>> \o text \o L_end_a

\* Parser.format_username
format_username(at_char, user) ==
    L_a_href \o L_twitter \o user \o L_close_attr
        \o at_char \o user \o L_end_a

\* Parser.format_list
format_list(at_char, user, list_name) ==
    L_a_href \o L_twitter \o user \o <<"/">> \o list_name \o L_close_attr
        \o at_char \o user \o <<"/">> \o list_name \o L_end_a

\* Parser.format_url
format_url(url, text) ==
    L_a_href \o escape(url) \o L_close_attr \o text \o L_end_a

\* the 3 of self._max_url_length - 3: the length of the appended '...'
EllipsisLen == 3

\* max_url_length = -1: no shortening
Unlimited == -1

\* Parser._shorten_url without its second cut at an open `&`
shorten_url_at_budget(self, text) ==
    IF Len(text) > self.max_url_length /\ self.max_url_length # Unlimited
      THEN PySlice(text, 0, self.max_url_length - EllipsisLen) \o L_dots
      ELSE text

\* Parser._shorten_url
shorten_url(self, text) ==
    LET cut   == PySlice(text, 0, self.max_url_length - EllipsisLen)
        amp   == PyRFind(cut, <<"&">>)
        close == PyRFind(cut, <<";">>)
    IN  IF Len(text) > self.max_url_length /\ self.max_url_length # Unlimited
          THEN (IF amp # NotFound /\ (close = NotFound \/ close < amp)
                  THEN PySlice(cut, 0, amp) ELSE cut) \o L_dots
          ELSE text

(***************************************************************************)
(* The substitution callbacks of Parser.  Each takes the parser, the       *)
(* scanned text and a match, and gives the replacement text (repl) and the *)
(* entities it appends to the parser's list (ents).  `if self._html:`      *)
(* tests the bound method Parser._html, which is always true: every        *)
(* callback returns its markup in both modes.                              *)
(***************************************************************************)
\* Parser._parse_urls
parse_urls(self, t, m) ==
    LET mat     == PySlice(t, m.start, m.end)
        domain  == Group(t, m.g5)
        hasHttp == PyFind(mat, L_http) # NotFound
        pos     == IF hasHttp THEN PyFind(mat, L_http)
                   ELSE PyFind(PyLower(mat), L_www)
        pre     == PySlice(mat, 0, pos)
        url     == PyFrom(mat, pos)
        full    == IF hasHttp THEN url ELSE L_https \o url
        span    == <<m.start + Len(pre), m.end>>
    IN  IF At(domain, 0) \in {".", "-"}
          THEN [repl |-> mat, ents |-> <<>>]
        ELSE IF /\ Len(domain) = OneLetterDomainLen
                /\ PyLower(PyFrom(domain, TldSliceStart)) \in OneLetterTlds
                /\ PyLower(domain) \notin IANA_ONE_LETTER_DOMAINS
          THEN [repl |-> mat, ents |-> <<>>]
        ELSE [repl |-> pre \o format_url(full, shorten_url(self, escape(url))),
              ents |-> IF self.include_spans THEN << <<url, span>> >>
                       ELSE <<url>>]

\* Parser._parse_users
parse_users(self, t, m) ==
    LET mat == PySlice(t, m.start, m.end)
    IN  IF m.g2 # NoGroup
          THEN [repl |-> mat, ents |-> <<>>]
        ELSE [repl |-> format_username(PySlice(mat, 0, 1), PyFrom(mat, 1)),
              ents |-> IF self.include_spans
                         THEN << <<PyFrom(mat, 1), <<m.start, m.end>> >> >>
                         ELSE <<PyFrom(mat, 1)>>]

\* Parser._parse_lists
parse_lists(self, t, m) ==
    LET pre       == Group(t, m.g1)
        at_char   == Group(t, m.g2)
        user      == Group(t, m.g3)
        list_name == PyFrom(Group(t, m.g4), 1)
    IN  IF m.g4 = NoGroup
          THEN [repl |-> PySlice(t, m.start, m.end), ents |-> <<>>]
        ELSE [repl |-> pre \o format_list(at_char, user, list_name),
              ents |-> IF self.include_spans
                         THEN << <<user, list_name, <<m.start, m.end>> >> >>
                         ELSE << <<user, list_name>> >>]

\* the loop `for i in u'#\uff03'` of Parser._parse_tags: the last offset of
\* the first sigil, in that order, the match holds
TagSigilPos(mat) ==
    IF PyRFind(mat, <<"#">>) # NotFound THEN PyRFind(mat, <<"#">>)
    ELSE PyRFind(mat, <<"U+FF03">>)

\* Parser._parse_tags
parse_tags(self, t, m) ==
    LET mat  == PySlice(t, m.start, m.end)
        pos  == TagSigilPos(mat)
        tag  == At(mat, pos)
        pre  == PySlice(mat, 0, pos)
        text == PyFrom(mat, pos + 1)
        span == <<m.start + Len(pre), m.end>>
    IN  [repl |-> pre \o format_tag(tag, text),
         ents |-> IF self.include_spans THEN << <<text, span>> >>
                  ELSE <<text>>]

(***************************************************************************)
(* Pattern.sub(callback, text): the matches are found left to right, each  *)
(* search starting where the previous match ended; the text between the    *)
(* matches is copied, each match is replaced by what the callback returns. *)
(***************************************************************************)
\* the pattern and the callback of each of the four passes
MatchAt(kind, t, i) ==
    CASE kind = "urls"  -> UrlMatchAt(t, i)
      [] kind = "users" -> UsernameMatchAt(t, i)
      [] kind = "lists" -> ListMatchAt(t, i)
      [] kind = "tags"  -> HashtagMatchAt(t, i)

Callback(kind, self, t, m) ==
    CASE kind = "urls"  -> parse_urls(self, t, m)
      [] kind = "users" -> parse_users(self, t, m)
      [] kind = "lists" -> parse_lists(self, t, m)
      [] kind = "tags"  -> parse_tags(self, t, m)

\* the match of the pattern at every offset of t
MatchesOf(kind, t) == [i \in 0..Len(t) |-> MatchAt(kind, t, i)]

MinOf(S) == CHOOSE i \in S : \A j \in S : i <= j

\* the first offset >= pos where a match starts, NotFound when there is none
NextStart(starts, pos) ==
    IF \E i \in starts : i >= pos
      THEN MinOf({i \in starts : i >= pos}) ELSE NotFound

\* Pattern.search(t, pos): the match at the first offset >= pos that has one
SearchFrom(matches, pos) ==
    IF NextStart({i \in DOMAIN matches : matches[i].start # NotFound}, pos)
           = NotFound
      THEN NoMatch
      ELSE matches[NextStart({i \in DOMAIN matches :
                                 matches[i].start # NotFound}, pos)]

RECURSIVE SubFrom(_, _, _, _, _, _)

\* the step of Pattern.sub for the match m found from pos: the text before
\* it is copied, the callback's replacement follows, and the scan goes on
\* where m ends; without a match the rest of the text is copied
SubStep(kind, self, t, matches, pos, acc, m) ==
    IF m.start = NotFound
      THEN [out |-> acc.out \o PyFrom(t, pos), ents |-> acc.ents]
      ELSE SubFrom(kind, self, t, matches, m.end,
                   [out  |-> acc.out \o PySlice(t, pos, m.start)
                                 \o Callback(kind, self, t, m).repl,
                    ents |-> acc.ents \o Callback(kind, self, t, m).ents])

SubFrom(kind, self, t, matches, pos, acc) ==
    SubStep(kind, self, t, matches, pos, acc, SearchFrom(matches, pos))

\* Pattern.sub(callback, t): the substituted text (out) and the entities
\* the callback appended (ents)
Sub(kind, self, t) ==
    SubFrom(kind, self, t, MatchesOf(kind, t), 0, [out |-> <<>>, ents |-> <<>>])

(***************************************************************************)
(* Parser._text and Parser._html: the four passes, in the order urls,      *)
(* users, lists, tags.  Each gives what the passes appended to the four    *)
(* lists and the text returned.                                            *)
(***************************************************************************)
Kinds == <<"urls", "users", "lists", "tags">>

RECURSIVE PassesFrom(_, _, _, _, _)

\* pass k has given s: in HTML mode the next pass scans its output, in Text
\* mode the output is dropped and the next pass scans the same text
PassDone(self, chained, k, cur, acc, s) ==
    PassesFrom(self, chained, k + 1, IF chained THEN s.out ELSE cur,
               [acc EXCEPT ![Kinds[k]] = s.ents])

PassesFrom(self, chained, k, cur, acc) ==
    IF k > Len(Kinds) THEN [acc EXCEPT !.html = cur]
    ELSE PassDone(self, chained, k, cur, acc, Sub(Kinds[k], self, cur))

NoEntities ==
    [html |-> <<>>, urls |-> <<>>, users |-> <<>>, lists |-> <<>>, tags |-> <<>>]

\* Parser._text: every pass scans the text it was given; it returns None
text_passes(self, text) ==
    [PassesFrom(self, FALSE, 1, text, NoEntities) EXCEPT !.html = None]

\* Parser._html: every pass scans the output of the pass before it
html_passes(self, text) == PassesFrom(self, TRUE, 1, text, NoEntities)

(***************************************************************************)
(* The program state.  Python lists are objects: `heap` holds the content  *)
(* of each list object, and a parser attribute or a ParseResult attribute  *)
(* holds a reference into it (an index of heap).                           *)
(***************************************************************************)
VARIABLES
    text,      \* the text the caller passes (the argument of the last call)
    parsers,   \* the Parser objects: their configuration and list attributes
    heap,      \* heap[r]: the content of list object r
    calls,     \* the parse calls made, each with the ParseResult it returned
    display    \* the last call of Parser._shorten_url: its argument and result

vars == <<text, parsers, heap, calls, display>>

\* a parser attribute that no parse has set yet
NoRef == 0

\* Parser.__init__ defaults: max_url_length=30, include_spans=False
DefaultMaxUrlLength == 30

\* Parser.__init__
NewParser(max_url_length, include_spans) ==
    [max_url_length |-> max_url_length, include_spans |-> include_spans,
     urls |-> NoRef, users |-> NoRef, lists |-> NoRef, tags |-> NoRef]

\* Parser.parse emptying its lists only on the first call: later calls keep
\* the list objects the attributes already refer to
ResetListsOnce(self, h) ==
    IF self.urls # NoRef THEN [self |-> self, heap |-> h]
    ELSE [self |-> [self EXCEPT !.urls = Len(h) + 1, !.users = Len(h) + 2,
                                !.lists = Len(h) + 3, !.tags = Len(h) + 4],
          heap |-> h \o <<<<>>, <<>>, <<>>, <<>>>>]

\* Parser.parse, its first four statements: the four attributes are bound
\* to four new, empty list objects
ResetLists(self, h) ==
    [self |-> [self EXCEPT !.urls = Len(h) + 1, !.users = Len(h) + 2,
                           !.lists = Len(h) + 3, !.tags = Len(h) + 4],
     heap |-> h \o <<<<>>, <<>>, <<>>, <<>>>>]

\* REPLY_REGEX.match(text), then reply.groups(0)[0] or None
ReplyOf(t) ==
    IF ReplyMatch(t).start = NotFound THEN None
    ELSE Group(t, ReplyMatch(t).g1)

\* the callbacks append what they found to the list objects the parser's
\* attributes refer to
AppendFound(self, h, found) ==
    [html |-> found.html,
     heap |-> [h EXCEPT ![self.urls]  = @ \o found.urls,
                        ![self.users] = @ \o found.users,
                        ![self.lists] = @ \o found.lists,
                        ![self.tags]  = @ \o found.tags]]

\* self._html(text) if html else self._text(text)
RunPasses(self, h, t, html) ==
    AppendFound(self, h,
                IF html THEN html_passes(self, t) ELSE text_passes(self, t))

\* `x if x else []` of ParseResult.__init__: the list object itself, or a
\* new empty list when it is empty; gives the heap and the reference
ListOrNew(h, r) ==
    IF h[r] # <<>> THEN [heap |-> h, ref |-> r]
    ELSE [heap |-> Append(h, <<>>), ref |-> Len(h) + 1]

\* ParseResult.__init__
NewParseResult(h, urls, users, reply, lists, tags, html) ==
    LET a == ListOrNew(h, urls)
        b == ListOrNew(a.heap, users)
        c == ListOrNew(b.heap, lists)
        d == ListOrNew(c.heap, tags)
    IN  [heap |-> d.heap,
         obj  |-> [urls |-> a.ref, users |-> b.ref, lists |-> c.ref,
                   reply |-> IF reply # <<>> THEN reply ELSE None,
                   tags |-> d.ref, html |-> html]]

\* the last statement of Parser.parse: the ParseResult is built from the
\* parser's four lists, the reply and the text q the passes returned
ReturnResult(self, q, reply) ==
    NewParseResult(q.heap, self.urls, self.users, reply,
                   self.lists, self.tags, q.html)

\* Parser.parse after its first four statements gave r
ParseBody(r, t, html) ==
    [self |-> r.self,
     out  |-> ReturnResult(r.self, RunPasses(r.self, r.heap, t, html),
                           ReplyOf(t))]

\* Parser.parse(text, html): the parser and the heap after the call, and the
\* ParseResult returned
parse(self, h, t, html) == ParseBody(ResetLists(self, h), t, html)

(***************************************************************************)
(* The pieces the input texts are made of                                  *)
(***************************************************************************)
F_user == <<"@", "a">>

F_userlist == <<"@", "a", "/", "b">>

F_dash == <<"-">>

F_space == <<" ">>

F_tag == <<"#", "c">>

F_hash == <<"#">>

F_fwhash == <<"U+FF03">>

F_http == <<"h", "t", "t", "p", ":", "/", "/">>

F_HTTP == <<"H", "T", "T", "P", ":", "/", "/">>

F_www == <<"w", "w", "w", ".">>

F_xcom == <<"x", ".", "c", "o", "m">>

F_acom == <<"a", ".", "c", "o", "m">>

F_port == <<":", "8", "0">>

F_path == <<"/", "@", "b">>

F_run ==
    <<"b", "B", "_", "7", "b", "B", "_", "7", "b", "B",
      "_", "7", "b", "B", "_", "7", "b", "B", "_", "7">>

T_url_user == <<"w", "w", "w", ".", "x", ".", "c", "o", "m", "/", "@", "b">>

T_user_tag == <<"@", "a", " ", "#", "c">>

T_list == <<"@", "a", "/", "b">>

T_plain == <<"a", " ", "b">>

(***************************************************************************)
(* Inputs                                                                  *)
(***************************************************************************)
Parsers == {1, 2}

\* the non-default max_url_length the second parser may be built with
ShortUrlLength == 8

MaxUrlLengths == {Unlimited, ShortUrlLength}

\* sequences over S of length at most n
SeqsUpTo(S, n) == UNION {[1..k -> S] : k \in 0..n}

TextsOf(frags, n) == {Concat(fs) : fs \in SeqsUpTo(frags, n)}

\* the texts of SpecOnce: up to MaxFrags pieces
MaxFrags == 3

Frags ==
    {F_user, F_userlist, F_dash, F_space, F_tag, F_hash, F_fwhash,
     F_http, F_HTTP, F_www, F_xcom, F_acom, F_port, F_path}

Texts == TextsOf(Frags, MaxFrags)

\* the texts of SpecReply: up to MaxReplyFrags pieces
MaxReplyFrags == 3

ReplyFrags ==
    {<<" ">>, <<"U+00A0">>, <<"@">>, <<"U+FF20">>, <<"a">>, <<"-">>, F_run}

ReplyTexts == TextsOf(ReplyFrags, MaxReplyFrags)

\* the texts of Spec, where one parser is called several times
CallTexts == {T_url_user, T_user_tag, T_list, T_plain}

\* how many parse calls a behaviour of Spec makes
MaxCalls == 2

\* the raw display texts of SpecShorten: up to MaxRawLen characters
MaxRawLen == 4

RawChars == {"a", "&", ";", "<"}

RawTexts == SeqsUpTo(RawChars, MaxRawLen)

\* the max_url_length values of SpecShorten: -2 .. MaxShortenLength
MaxShortenLength == 9

MinShortenLength == Unlimited - 1

(***************************************************************************)
(* Actions                                                                 *)
(***************************************************************************)
\* _shorten_url has not been called yet
NoDisplay == [parser |-> NoRef, text |-> <<>>, out |-> <<>>]

\* two parsers are constructed: Parser() and Parser(m, s)
InitParsers(lengths) ==
    /\ parsers \in {[p \in Parsers |->
                        IF p = 1 THEN NewParser(DefaultMaxUrlLength, FALSE)
                        ELSE NewParser(m, s)] :
                    m \in lengths, s \in BOOLEAN}
    /\ heap = <<>>
    /\ calls = <<>>
    /\ display = NoDisplay

Init == InitParsers(MaxUrlLengths) /\ text = <<>>

InitOnce == InitParsers(MaxUrlLengths) /\ text \in Texts

InitReply == InitParsers(MaxUrlLengths) /\ text \in ReplyTexts

InitShorten ==
    /\ InitParsers(MinShortenLength..MaxShortenLength)
    /\ text \in RawTexts

\* the caller keeps the ParseResult that parsers[p].parse(t, html) returned
Returned(p, t, html, r) ==
    /\ text' = t
    /\ parsers' = [parsers EXCEPT ![p] = r.self]
    /\ heap' = r.out.heap
    /\ calls' = Append(calls, [parser |-> p, text |-> t, html |-> html,
                               result |-> r.out.obj])
    /\ UNCHANGED display

\* result = parsers[p].parse(t, html)
Parse(p, t, html) == Returned(p, t, html, parse(parsers[p], heap, t, html))

\* parsers[p]._shorten_url(escape(text)), as Parser._parse_urls calls it
Shorten(p) ==
    /\ display' = [parser |-> p, text |-> escape(text),
                   out    |-> shorten_url(parsers[p], escape(text))]
    /\ UNCHANGED <<text, parsers, heap, calls>>

\* a caller that parses texts with its parsers, MaxCalls times
Next ==
    \E p \in Parsers, t \in CallTexts, html \in BOOLEAN :
        Len(calls) < MaxCalls /\ Parse(p, t, html)

\* a caller that parses its text once
NextOnce ==
    \E p \in Parsers, html \in BOOLEAN : calls = <<>> /\ Parse(p, text, html)

NextShorten == \E p \in Parsers : Shorten(p)

Spec == Init /\ [][Next]_vars

SpecOnce == InitOnce /\ [][NextOnce]_vars

SpecReply == InitReply /\ [][NextOnce]_vars

SpecShorten == InitShorten /\ [][NextShorten]_vars

(***************************************************************************)
(* What the claims speak of                                                *)
(***************************************************************************)
\* the matches a pass finds in t, left to right (Pattern.finditer)
RECURSIVE FindAllFrom(_, _)
FindAllFrom(matches, pos) ==
    IF SearchFrom(matches, pos).start = NotFound THEN <<>>
    ELSE <<SearchFrom(matches, pos)>>
             \o FindAllFrom(matches, SearchFrom(matches, pos).end)

FindAll(kind, t) == FindAllFrom(MatchesOf(kind, t), 0)

Range(f) == {f[i] : i \in DOMAIN f}

\* the parser a call was made on
ParserOf(c) == parsers[c.parser]

\* the entities of one kind a call returned, as the list object holds them now
Entities(c, kind) ==
    CASE kind = "urls"  -> heap[c.result.urls]
      [] kind = "users" -> heap[c.result.users]
      [] kind = "lists" -> heap[c.result.lists]
      [] kind = "tags"  -> heap[c.result.tags]

\* an entity without its span, and its span
Payload(kind, e, spans) ==
    IF kind = "lists" THEN <<e[1], e[2]>>
    ELSE IF spans THEN e[1] ELSE e

SpanOf(kind, e) == IF kind = "lists" THEN e[3] ELSE e[2]

Payloads(c, kind) ==
    [i \in 1..Len(Entities(c, kind)) |->
        Payload(kind, Entities(c, kind)[i], ParserOf(c).include_spans)]

\* what recognition gave: the reply target and the four payload sequences
Recognized(c) ==
    [reply |-> c.result.reply, urls |-> Payloads(c, "urls"),
     users |-> Payloads(c, "users"), lists |-> Payloads(c, "lists"),
     tags |-> Payloads(c, "tags")]

(***************************************************************************)
(* C1.  Every occurrence the username pattern matches with a list suffix   *)
(* (`/` and slug characters right after the name) is recorded in lists as  *)
(* (username, listname) and not in users: after a parse in either mode,    *)
(* for each match the username pass finds in the original text with its    *)
(* list-suffix group set, the pair is among the list payloads, and the     *)
(* name is among the user payloads only when the text also holds it as a   *)
(* bare username.                                                          *)
(***************************************************************************)
\* the matches of the username pass on the text of call c, with or without
\* their list suffix
SuffixedUsers(c) ==
    {m \in Range(FindAll("users", c.text)) : m.g2 # NoGroup}

BareUsers(c) ==
    {m \in Range(FindAll("users", c.text)) : m.g2 = NoGroup}

C1_ListSuffixOwnedByLists ==
    \A k \in DOMAIN calls :
        \A m \in SuffixedUsers(calls[k]) :
            /\ <<Group(calls[k].text, m.g1),
                 PyFrom(Group(calls[k].text, m.g2), 1)>>
                   \in Range(Payloads(calls[k], "lists"))
            /\ Group(calls[k].text, m.g1) \in Range(Payloads(calls[k], "users"))
                   => \E b \in BareUsers(calls[k]) :
                          Group(calls[k].text, b.g1) = Group(calls[k].text, m.g1)

(***************************************************************************)
(* C2.  With span tracking, every span recorded for a url, user, list or   *)
(* tag, in either mode, is a pair of offsets into the original text: the   *)
(* original text sliced at the span is the recognized entity (the url; the *)
(* sigil and the name; the sigil and the tag; for a list a text that ends  *)
(* with name/listname).                                                    *)
(***************************************************************************)
SpanLocates(t, kind, e) ==
    LET slice == PySlice(t, SpanOf(kind, e)[1], SpanOf(kind, e)[2])
    IN  /\ 0 <= SpanOf(kind, e)[1]
        /\ SpanOf(kind, e)[1] <= SpanOf(kind, e)[2]
        /\ SpanOf(kind, e)[2] <= Len(t)
        /\ CASE kind = "urls"  -> slice = e[1]
             [] kind = "users" -> At(slice, 0) \in AT_SIGNS
                                    /\ PyFrom(slice, 1) = e[1]
             [] kind = "tags"  -> At(slice, 0) \in HASH_SIGNS
                                    /\ PyFrom(slice, 1) = e[1]
             [] kind = "lists" ->
                    PyFrom(slice, Len(slice) - Len(e[1] \o <<"/">> \o e[2]))
                        = e[1] \o <<"/">> \o e[2]

C2_SpansInOriginalText ==
    \A k \in DOMAIN calls :
        ParserOf(calls[k]).include_spans =>
            \A kind \in Range(Kinds) :
                \A e \in Range(Entities(calls[k], kind)) :
                    SpanLocates(calls[k].text, kind, e)

(***************************************************************************)
(* C5.  The configuration never affects recognition: two parses of the     *)
(* same text in the same mode, by parsers of whatever max_url_length and   *)
(* include_spans, give the same reply target and the same payload          *)
(* sequences (spans stripped), in the same order.                          *)
(***************************************************************************)
C5_ConfigurationKeepsRecognition ==
    \A i, j \in DOMAIN calls :
        (calls[i].text = calls[j].text /\ calls[i].html = calls[j].html)
            => Recognized(calls[i]) = Recognized(calls[j])

(***************************************************************************)
(* C7.  No recorded url has a single-letter second-level domain under com, *)
(* org or net, unless that domain is on the IANA list -- whatever port     *)
(* suffix or further labels the domain carries.                            *)
(***************************************************************************)
\* the host of a url: what stands between the scheme (if any) and the first
\* of `:`, `/`, `?`
HostOf(u) ==
    LET from == IF PyFind(u, <<":", "/", "/">>) = NotFound THEN 0
                ELSE PyFind(u, <<":", "/", "/">>) + 3
    IN  PySlice(u, from, RunEnd(u, from, DomainChars \ {":", "/", "?"}))

\* the last two labels of a host: a.com of www.a.com
RegistrableOf(h) ==
    LET tld == PyRFind(h, <<".">>)
        sld == IF tld <= 0 THEN NotFound
               ELSE PyRFind(PySlice(h, 0, tld), <<".">>)
    IN  PyFrom(h, sld + 1)

OneLetterUnregistered(u) ==
    LET d == PyLower(RegistrableOf(HostOf(u)))
    IN  /\ Len(d) = OneLetterDomainLen
        /\ PyFrom(d, 1) \in OneLetterTlds
        /\ d \notin IANA_ONE_LETTER_DOMAINS

C7_NoOneLetterDomainRecorded ==
    \A k \in DOMAIN calls :
        \A u \in Range(Payloads(calls[k], "urls")) : ~OneLetterUnregistered(u)

(***************************************************************************)
(* C8.  Every recorded url is what a match of the url pattern holds from   *)
(* the scheme token the pattern recognized (http://, https:// or www., in  *)
(* any letter case) to the end of the match, and with span tracking its    *)
(* span is (start of that token, end of the match).                        *)
(***************************************************************************)
UrlFromToken(c, e) ==
    \E m \in Range(FindAll("urls", c.text)) :
        /\ Payload("urls", e, ParserOf(c).include_spans)
               = PySlice(c.text, m.g4[1], m.end)
        /\ ParserOf(c).include_spans => SpanOf("urls", e) = <<m.g4[1], m.end>>

C8_UrlStartsAtSchemeToken ==
    \A k \in DOMAIN calls :
        \A e \in Range(Entities(calls[k], "urls")) : UrlFromToken(calls[k], e)

(***************************************************************************)
(* C9.  A hashtag match is split at the rightmost occurrence of either     *)
(* hash sigil: no recorded tag text contains a sigil, and the tags of a    *)
(* Text-mode parse are, in order, what follows the rightmost sigil in each *)
(* match of the hashtag pattern (with span tracking, from that sigil to    *)
(* the end of the match).                                                  *)
(***************************************************************************)
RightmostSigil(mat) ==
    MaxOf({i \in 0..(Len(mat) - 1) : At(mat, i) \in HASH_SIGNS})

TagAfterRightmostSigil(c, m, e) ==
    LET mat == PySlice(c.text, m.start, m.end)
    IN  /\ Payload("tags", e, ParserOf(c).include_spans)
               = PyFrom(mat, RightmostSigil(mat) + 1)
        /\ ParserOf(c).include_spans
               => SpanOf("tags", e) = <<m.start + RightmostSigil(mat), m.end>>

C9_TagSplitAtRightmostSigil ==
    \A k \in DOMAIN calls :
        /\ \A tag \in Range(Payloads(calls[k], "tags")) :
               \A i \in 1..Len(tag) : tag[i] \notin HASH_SIGNS
        /\ ~calls[k].html =>
               /\ Len(Entities(calls[k], "tags"))
                      = Len(FindAll("tags", calls[k].text))
               /\ \A i \in 1..Len(Entities(calls[k], "tags")) :
                      TagAfterRightmostSigil(calls[k],
                          FindAll("tags", calls[k].text)[i],
                          Entities(calls[k], "tags")[i])

(***************************************************************************)
(* C10.  Recognition is independent of the mode: a parser that parses the  *)
(* same text in Text mode and in HTML mode gives the same reply target and *)
(* the same payload sequences (same elements, order and multiplicity).     *)
(***************************************************************************)
C10_ModeKeepsRecognition ==
    \A i, j \in DOMAIN calls :
        (calls[i].text = calls[j].text /\ calls[i].parser = calls[j].parser
            /\ calls[i].html # calls[j].html)
            => Recognized(calls[i]) = Recognized(calls[j])

(***************************************************************************)
(* C3.  The reply target of a parse, in either mode, is the name that      *)
(* follows the sigil when the text, after its leading characters of the    *)
(* whitespace set, goes on with a sigil and at least one username          *)
(* character: the longest run of username characters after the sigil, at   *)
(* most 20 of them.  Otherwise it is None.                                 *)
(***************************************************************************)
\* how many characters of the whitespace set the text starts with
LeadingSpaces(t) ==
    CHOOSE k \in 0..Len(t) :
        /\ \A i \in 1..k : t[i] \in SPACES
        /\ k < Len(t) => t[k + 1] \notin SPACES

\* the lengths, up to 20, of the names that may follow a sigil at t[k + 1]
NameLengths(t, k) ==
    {n \in 1..MaxUserLen :
        /\ k + 1 + n <= Len(t)
        /\ \A i \in 1..n : t[k + 1 + i] \in UserChars}

ExpectedReply(t) ==
    LET k == LeadingSpaces(t)
    IN  IF k < Len(t) /\ t[k + 1] \in AT_SIGNS /\ NameLengths(t, k) # {}
          THEN SubSeq(t, k + 2, k + 1 + MaxOf(NameLengths(t, k)))
          ELSE None

C3_ReplyTarget ==
    \A k \in DOMAIN calls :
        calls[k].result.reply = ExpectedReply(calls[k].text)

\* an HTML-mode parse gave a reply target of 20 characters, cut from a
\* longer run of username characters
C3_Witness ==
    \E k \in DOMAIN calls :
        /\ calls[k].html
        /\ calls[k].result.reply # None
        /\ Len(calls[k].result.reply) = MaxUserLen
        /\ At(calls[k].text,
              LeadingSpaces(calls[k].text) + 1 + MaxUserLen) \in UserChars

(***************************************************************************)
(* C4.  Parser._shorten_url, given an escaped display text, returns it     *)
(* unchanged when max_url_length is -1 or the text is within it; otherwise *)
(* it returns a prefix of the text followed by `...`, and every `&` of     *)
(* that prefix starts a whole entity (&amp; &quot; &apos; &gt; &lt;) that  *)
(* ends within the prefix.                                                 *)
(***************************************************************************)
EntityRefs == {L_amp, L_quot, L_apos, L_gt, L_lt}

\* every & of the first n characters of t starts an entity that ends there
WholeEntities(t, n) ==
    \A i \in 1..n :
        t[i] = "&" =>
            \E e \in EntityRefs :
                i - 1 + Len(e) <= n /\ SubSeq(t, i, i - 1 + Len(e)) = e

C4_ShortenKeepsEntitiesWhole ==
    display.parser # NoRef =>
        IF \/ parsers[display.parser].max_url_length = Unlimited
           \/ Len(display.text) <= parsers[display.parser].max_url_length
          THEN display.out = display.text
          ELSE \E n \in 0..Len(display.text) :
                   /\ display.out = SubSeq(display.text, 1, n) \o L_dots
                   /\ WholeEntities(display.text, n)

\* a text over the budget was cut inside an entity, and cut again at its &
C4_Witness ==
    /\ display.parser # NoRef
    /\ parsers[display.parser].max_url_length >= EllipsisLen
    /\ Len(display.text) > parsers[display.parser].max_url_length
    /\ Len(display.out) < parsers[display.parser].max_url_length
    /\ At(display.text, Len(display.out) - EllipsisLen) = "&"

(***************************************************************************)
(* C6.  Parses on one parser are independent: at any time, every           *)
(* ParseResult a call returned holds exactly what a newly constructed      *)
(* parser of the same configuration returns for the same text and mode --  *)
(* nothing of an earlier text is in it, and no later call changes it.      *)
(***************************************************************************)
\* what a ParseResult holds, its lists read from heap h
Content(h, obj) ==
    [urls |-> h[obj.urls], users |-> h[obj.users], lists |-> h[obj.lists],
     tags |-> h[obj.tags], reply |-> obj.reply, html |-> obj.html]

ContentOf(r) == Content(r.out.heap, r.out.obj)

\* the result of the same call on a new parser of the same configuration
FreshResult(c) ==
    ContentOf(parse(NewParser(ParserOf(c).max_url_length,
                              ParserOf(c).include_spans),
                    <<>>, c.text, c.html))

C6_ParsesIndependent ==
    \A k \in DOMAIN calls :
        Content(heap, calls[k].result) = FreshResult(calls[k])

\* one parser has parsed two different texts, and found entities in both
C6_Witness ==
    \E i, j \in DOMAIN calls :
        /\ i < j
        /\ calls[i].parser = calls[j].parser
        /\ calls[i].text # calls[j].text
        /\ Entities(calls[i], "users") # <<>>
        /\ Entities(calls[j], "users") # <<>>

=============================================================================
